---- MODULE Spec2Model ----
(***************************************************************************)
(* The request-handling core of koa: lib/application.js (handleRequest,    *)
(* respond), lib/context.js (ctx.onerror) and the parts of lib/response.js *)
(* that those two call.  One request is followed from the moment its       *)
(* Context exists until nothing more can happen to it (Spec, SpecErr).     *)
(* Beside it: the middleware list and the chain composed of it             *)
(* (SpecChain), the Request facade's host, protocol, ips and ip            *)
(* (SpecProxy), its query and querystring (SpecQuery), and the Contexts of *)
(* requests handled at the same time (SpecCtx).  Each specification moves  *)
(* its own variables and leaves the others as they are.                    *)
(*                                                                         *)
(* Encodings.  A header that is absent is "" (Content-Length: -1).  An     *)
(* error's status / statusCode is an integer: 0 is an absent (falsy)       *)
(* value, -1 a truthy value that is not a number (the string '404'), any   *)
(* other value that number.  Strings are ASCII, so Buffer.byteLength is    *)
(* the number of characters.                                               *)
(***************************************************************************)
EXTENDS Integers, Sequences, FiniteSets, TLC

VARIABLES
    pc,          \* where the promise chain of handleRequest stands
    chain,       \* fnMiddleware(ctx): "pending", "resolved", "rejected"
    req,         \* the raw request: method, httpVersionMajor
    ctx,         \* the raw response and the Response facade over it
    socket,      \* res.socket.writable
    observer,    \* the on-finished listener: "unset", "armed", "fired"
    ops,         \* how many operations the middleware has done
    thrown,      \* what the promise chain rejected with (NoErr: nothing)
    err,         \* the error objects ctx.onerror has been given, by origin
    emitted,     \* the 'error' events of the application, in order
    calls,       \* the calls handleRequest's callbacks made, in order
    study,       \* what is explored: "response", "failure", "chain", ...
    middleware,  \* app.middleware: the handlers registered with use()
    handlers,    \* per callback() made: the list as it was when composed
    serving,     \* the request handler serving the request (0: none)
    index,       \* the composer's index: the last position dispatched
    stack,       \* the handler invocations awaiting or running, outermost first
    ret,         \* what the last next() call gives its caller
    trace,       \* what the handlers of the request did, in order
    outcome,     \* fnMiddleware(ctx): "idle", "running", "resolved", "rejected"
    handled,     \* the callback of handleRequest that took the outcome
    requests,    \* how many requests have been started
    app,         \* the application's settings: proxy, maxIpsCount, proxyIpHeader
    reqHeaders,  \* req.headers of the request the facade reads
    conn,        \* its connection: httpVersionMajor, encrypted, remoteAddress
    IP,          \* request[IP]: the address the ip getter keeps
    seen,        \* the last accessor read and what it returned
    url,         \* req.url of the request whose query is read and assigned
    originalUrl, \* originalUrl of its Context and of its Request
    querycache,  \* request._querycache: the parses kept, by query string
    given,       \* the object last assigned to request.query
    assigned,    \* the accessor last assigned: url, path, querystring, ...
    assigns,     \* how many assignments to the accessors there were
    got,         \* the last of querystring and query read, and its value
    als,         \* options.asyncLocalStorage: app.ctxStorage exists
    heap,        \* the objects createContext has made, by identity
    tasks,       \* the requests being handled: their Context, where they stand
    running,     \* the request whose code runs now (0: none)
    stores,      \* the store of ctxStorage in each request's async context
    read         \* the last read of app.currentContext: by whom, what

\* One request, from its Context to the end of its response.
lifeVars ==
    <<pc, chain, req, ctx, socket, observer, ops, thrown, err, emitted, calls,
      study>>

\* The middleware list and a request going through the composed chain.
chainVars ==
    <<middleware, handlers, serving, index, stack, ret, trace, outcome,
      handled, requests>>

\* The Request facade's view of where the request comes from.
proxyVars == <<app, reqHeaders, conn, IP, seen>>

\* The Request facade's view of the query string.
queryVars == <<url, originalUrl, querycache, given, assigned, assigns, got>>

\* The Contexts of the requests handled at the same time.
ctxVars == <<als, heap, tasks, running, stores, read>>

vars == <<lifeVars, chainVars, proxyVars, queryVars, ctxVars>>

\* How many operations the middleware chain performs on one request at most:
\* where the chains are explored in full (MaxOps, with few errors) and where
\* the errors are (MaxErrOps, with every error).
MaxOps == 3
MaxErrOps == 2

\* How many handlers are registered, how many request handlers callback()
\* makes and how many requests are served, at most.
MaxHandlers == 3
MaxCallbacks == 1
MaxRequests == 1

\* How many characters a forwarded-for header has at most.
MaxHeaderLen == 3

\* How many times request.query is assigned at most.
MaxAssigns == 1

\* How many requests are handled at the same time at most.
MaxTasks == 2

----------------------------------------------------------------------------
(* The statuses package: the code -> reason phrase table and the set of    *)
(* codes whose responses carry no body.                                    *)

Codes == {200, 204, 205, 304, 400, 404, 418, 500}

statuses ==
    [c \in Codes |->
        CASE c = 200 -> "OK"
          [] c = 204 -> "No Content"
          [] c = 205 -> "Reset Content"
          [] c = 304 -> "Not Modified"
          [] c = 400 -> "Bad Request"
          [] c = 404 -> "Not Found"
          [] c = 418 -> "I'm a teapot"
          [] c = 500 -> "Internal Server Error"]

\* statuses[statusCode] is truthy
InTable(c) == c \in Codes

StatusesEmpty(c) == c \in {204, 205, 304}

\* String(code)
CodeString(c) ==
    CASE c = 200 -> "200" [] c = 204 -> "204" [] c = 205 -> "205"
      [] c = 304 -> "304" [] c = 400 -> "400" [] c = 404 -> "404"
      [] c = 418 -> "418" [] c = 500 -> "500"

\* Buffer.byteLength(str), for ASCII text
ByteLength(s) == Len(s)

----------------------------------------------------------------------------
(* Values.                                                                 *)

NoHeaders == [ct |-> "", cl |-> -1, te |-> "", x |-> ""]

Undefined == [kind |-> "undefined", text |-> ""]
Null == [kind |-> "null", text |-> ""]

\* The bodies middleware stages: a string, a Buffer, a stream, an object
\* ({"a":1} once serialized) and an object JSON.stringify throws on.
Bodies ==
    { Null,
      [kind |-> "string", text |-> "hello"],
      [kind |-> "buffer", text |-> "abc"],
      [kind |-> "stream", text |-> "streamed"],
      [kind |-> "json", text |-> "{\"a\":1}"],
      [kind |-> "circular", text |-> ""] }

NoErr == [native |-> FALSE, status |-> 0, statusCode |-> 0, code |-> "",
          expose |-> FALSE, message |-> "", headers |-> NoHeaders,
          headerSent |-> FALSE, absent |-> TRUE]

MkErr(native, status, statusCode, code, expose, message, headers) ==
    [native |-> native, status |-> status, statusCode |-> statusCode,
     code |-> code, expose |-> expose, message |-> message,
     headers |-> headers, headerSent |-> FALSE, absent |-> FALSE]

\* What a chain may reject with: native errors over every combination of the
\* fields ctx.onerror reads, and one value that is not an Error instance.
ErrHeaders ==
    [ct |-> "application/json", cl |-> 5, te |-> "chunked", x |-> "from-error"]

NativeErrors ==
    { MkErr(TRUE, st[1], st[2], code, expose, message, headers) :
        st \in {<<0, 0>>, <<0, 400>>, <<418, 0>>, <<304, 0>>, <<999, 0>>,
                <<-1, 400>>},
        code \in {"", "ENOENT"},
        expose \in BOOLEAN,
        message \in {"teapot", "boom"},
        headers \in {NoHeaders, ErrHeaders} }

NonError == MkErr(FALSE, 418, 0, "", TRUE, "teapot", NoHeaders)

Errors == NativeErrors \cup {NonError}

\* The errors of the long chains: an exposed 418, a plain defect.
FewErrors ==
    { MkErr(TRUE, 418, 0, "", TRUE, "teapot", NoHeaders),
      MkErr(TRUE, 0, 0, "", FALSE, "boom", NoHeaders) }

\* The error a socket reports to the on-finished listener.
SocketErr == MkErr(TRUE, 0, 0, "ECONNRESET", FALSE, "socket hang up", NoHeaders)

\* JSON.stringify's TypeError on a circular structure.
StringifyErr ==
    MkErr(TRUE, 0, 0, "", FALSE, "Converting circular structure to JSON",
          NoHeaders)

----------------------------------------------------------------------------
(* lib/response.js: the accessors of the Response facade that respond and  *)
(* ctx.onerror use (ctx delegates to them).  c is the response: the raw    *)
(* res (statusCode, headersSent, writableEnded, header, payload) and the   *)
(* facade's own fields (body, explicitStatus, explicitNullBody).           *)

\* get headerSent
headerSent(c) == c.headersSent

\* get writable
writable(c, sock) == ~c.writableEnded /\ sock

\* set(field, val), for each header the model keeps; a no-op once the
\* headers are sent
setHeaders(c, h) ==
    IF headerSent(c) THEN c
    ELSE [c EXCEPT !.header =
            [ct |-> IF h.ct # "" THEN h.ct ELSE @.ct,
             cl |-> IF h.cl # -1 THEN h.cl ELSE @.cl,
             te |-> IF h.te # "" THEN h.te ELSE @.te,
             x  |-> IF h.x # "" THEN h.x ELSE @.x]]

\* remove('Content-Type'), remove('Content-Length'),
\* remove('Transfer-Encoding')
removeType(c) == IF headerSent(c) THEN c ELSE [c EXCEPT !.header.ct = ""]
removeLength(c) == IF headerSent(c) THEN c ELSE [c EXCEPT !.header.cl = -1]
removeTransferEncoding(c) ==
    IF headerSent(c) THEN c ELSE [c EXCEPT !.header.te = ""]

\* has('Content-Length'), has('Content-Type')
hasLength(c) == c.header.cl # -1
hasType(c) == c.header.ct # ""

\* getType(type): the full content type of a short name
MimeType(t) ==
    CASE t = "text" -> "text/plain; charset=utf-8"
      [] t = "html" -> "text/html; charset=utf-8"
      [] t = "json" -> "application/json; charset=utf-8"
      [] t = "bin" -> "application/octet-stream"

\* set type
setType(c, t) == setHeaders(c, [NoHeaders EXCEPT !.ct = MimeType(t)])

\* set length
setLength(c, n) == setHeaders(c, [NoHeaders EXCEPT !.cl = n])

\* get length: Content-Length when present, else the size of a body that
\* has one (-1: undefined)
getLength(c) ==
    IF hasLength(c) THEN c.header.cl
    ELSE IF c.body.kind \in {"string", "buffer", "json"}
         THEN ByteLength(c.body.text)
         ELSE -1

\* get message
getMessage(c) == IF InTable(c.statusCode) THEN statuses[c.statusCode] ELSE ""

\* The end of the body setter for null: the content headers go.
stripBodyHeaders(c) == removeTransferEncoding(removeLength(removeType(c)))

\* set status
setStatus(c, code) ==
    IF headerSent(c) THEN c
    ELSE LET c1 == [c EXCEPT !.explicitStatus = TRUE, !.statusCode = code]
         IN  IF c1.body.kind \notin {"undefined", "null"} /\ StatusesEmpty(code)
             THEN stripBodyHeaders([c1 EXCEPT !.body = Null,
                                              !.explicitNullBody = TRUE])
             ELSE c1

\* set body
setBody(c, val) ==
    LET c1 == [c EXCEPT !.body = val]
    IN  IF val.kind = "null"
        THEN LET c2 == IF StatusesEmpty(c1.statusCode) THEN c1
                       ELSE setStatus(c1, 204)
             IN  stripBodyHeaders([c2 EXCEPT !.explicitNullBody = TRUE])
        ELSE LET c2 == IF c1.explicitStatus THEN c1 ELSE setStatus(c1, 200)
                 c3 == IF hasType(c2) THEN c2
                       ELSE setType(c2, CASE val.kind = "string" -> "text"
                                          [] val.kind \in {"buffer", "stream"} -> "bin"
                                          [] OTHER -> "json")
             IN  CASE val.kind \in {"string", "buffer"} ->
                        setLength(c3, ByteLength(val.text))
                   [] val.kind = "stream" ->
                        IF c.body.kind \notin {"undefined", "null"}
                        THEN removeLength(c3) ELSE c3
                   [] OTHER -> setType(removeLength(c3), "json")

\* res.end(data): the headers go out if they have not, then the payload
end(c, data) ==
    [c EXCEPT !.headersSent = TRUE, !.writableEnded = TRUE, !.payload = data]

----------------------------------------------------------------------------
(* lib/context.js: ctx.onerror(err).                                       *)

\* err = new Error(util.format('non-error thrown: %j', err))
WrapNonError(e) ==
    IF e.native THEN e
    ELSE MkErr(TRUE, 0, 0, "", FALSE, "non-error thrown", NoHeaders)

\* As if the test were this.headerSent alone.
CommittedHeadersOnly(c, sock) == headerSent(c)

\* this.headerSent || !this.writable
Committed(c, sock) == headerSent(c) \/ ~writable(c, sock)

\* res.getHeaderNames().forEach(name => res.removeHeader(name))
\* As if no header were removed.
unsetNoHeaders(c) == c

unsetAllHeaders(c) == [c EXCEPT !.header = NoHeaders]

\* err.status || err.statusCode
ExplicitStatus(e) == IF e.status # 0 THEN e.status ELSE e.statusCode

\* As if the ENOENT line were missing.
ErrorStatusNoEnoent(e) ==
    LET statusCode == ExplicitStatus(e)
    IN  IF statusCode <= 0 \/ ~InTable(statusCode) THEN 500 ELSE statusCode

\* The status of the error response: ENOENT is 404, and what is not a number
\* of the status table is 500.
ErrorStatus(e) ==
    LET statusCode == IF e.code = "ENOENT" THEN 404 ELSE ExplicitStatus(e)
    IN  IF statusCode <= 0 \/ ~InTable(statusCode) THEN 500 ELSE statusCode

\* As if msg were err.message whatever err.expose is.
ErrorBodyMessage(e, code) == e.message

\* As if msg were the reason phrase whatever err.expose is.
ErrorBodyPhrase(e, code) == code

\* const msg = err.expose ? err.message : code
ErrorBody(e, code) == IF e.expose THEN e.message ELSE code

\* ctx.onerror from its second statement on: the response and the error
\* object after it, and whether the application's 'error' event was emitted.
recover(c, sock, e) ==
    LET e1 == WrapNonError(e)
    IN  IF Committed(c, sock)
        THEN [c |-> c, err |-> [e1 EXCEPT !.headerSent = TRUE], emit |-> TRUE]
        ELSE LET c1 == setType(setHeaders(unsetAllHeaders(c), e1.headers),
                               "text")
                 statusCode == ErrorStatus(e1)
                 msg == ErrorBody(e1, statuses[statusCode])
                 c2 == setLength(setStatus(c1, statusCode), ByteLength(msg))
             IN  [c |-> end(c2, msg),
                  err |-> [e1 EXCEPT !.status = statusCode],
                  emit |-> TRUE]

\* As if `if (err == null) return` were missing.
onerrorOfAnything(c, sock, e) == recover(c, sock, e)

\* ctx.onerror(e) on response c
onerror(c, sock, e) ==
    IF e.absent THEN [c |-> c, err |-> e, emit |-> FALSE]
    ELSE recover(c, sock, e)

----------------------------------------------------------------------------
(* lib/application.js: respond(ctx).                                       *)

\* The fallback body of a response without one.
\* As if the HTTP version were not consulted.
FallbackBodyPhrase(c, httpVersionMajor) ==
    IF getMessage(c) # "" THEN getMessage(c) ELSE CodeString(c.statusCode)

\* body = ctx.message || String(code), and String(code) alone on HTTP/2
FallbackBody(c, httpVersionMajor) ==
    IF httpVersionMajor >= 2 THEN CodeString(c.statusCode)
    ELSE IF getMessage(c) # "" THEN getMessage(c) ELSE CodeString(c.statusCode)

\* As if the HEAD branch were res.end() alone.
respondHeadNoLength(c) == end(c, "")

\* The HEAD branch: Content-Length from the staged body, no payload.
respondHead(c) ==
    LET c1 == IF ~c.headersSent /\ ~hasLength(c) /\ getLength(c) >= 0
              THEN setLength(c, getLength(c))
              ELSE c
    IN  end(c1, "")

\* The HEAD branch reads ctx.response.length, which serializes an object
\* body: JSON.stringify throws on a circular one.
headThrows(c) ==
    ~c.headersSent /\ ~hasLength(c) /\ c.body.kind = "circular"

\* The branch of a null or undefined body.
respondNoBody(c, httpVersionMajor) ==
    IF c.explicitNullBody
    THEN end(setLength(removeTransferEncoding(removeType(c)), 0), "")
    ELSE LET body == FallbackBody(c, httpVersionMajor)
             c1 == IF ~c.headersSent
                   THEN setLength(setType(c, "text"), ByteLength(body))
                   ELSE c
         IN  end(c1, body)

\* As if the branch were res.end() alone.
respondEmptyKeepBody(c) == end(c, "")

\* The branch of a status without a body: ctx.body = null; res.end()
respondEmpty(c) == end(setBody(c, Null), "")

\* As if respond did not test ctx.respond.
BypassedByWritableOnly(c, sock) == ~writable(c, sock)

\* As if respond did not test ctx.writable.
BypassedByFlagOnly(c, sock) == c.respond = FALSE

\* ctx.respond === false, or !ctx.writable: respond returns at once
Bypassed(c, sock) == c.respond = FALSE \/ ~writable(c, sock)

\* respond(ctx): the response after it, and whether it threw.  A stream is
\* piped to res, which ends with what the stream held.
respond(c, sock, r) ==
    IF Bypassed(c, sock)
    THEN [c |-> c, threw |-> FALSE]
    ELSE IF StatusesEmpty(c.statusCode)
    THEN [c |-> respondEmpty(c), threw |-> FALSE]
    ELSE IF r.method = "HEAD"
    THEN IF headThrows(c) THEN [c |-> c, threw |-> TRUE]
         ELSE [c |-> respondHead(c), threw |-> FALSE]
    ELSE IF c.body.kind \in {"undefined", "null"}
    THEN [c |-> respondNoBody(c, r.httpVersionMajor), threw |-> FALSE]
    ELSE IF c.body.kind \in {"buffer", "string", "stream"}
    THEN [c |-> end(c, c.body.text), threw |-> FALSE]
    ELSE IF c.body.kind = "circular"
    THEN [c |-> c, threw |-> TRUE]
    ELSE LET c1 == IF ~c.headersSent
                   THEN setLength(c, ByteLength(c.body.text))
                   ELSE c
         IN  [c |-> end(c1, c.body.text), threw |-> FALSE]

----------------------------------------------------------------------------
(* The request's life.                                                     *)

Origins == {"chain", "respond", "socket"}

\* No middleware is registered and no chain runs.
NoChain ==
    /\ middleware = <<>> /\ handlers = <<>> /\ serving = 0 /\ index = 0
    /\ stack = <<>> /\ ret = "none" /\ trace = <<>> /\ outcome = "idle"
    /\ handled = "none" /\ requests = 0

\* A text is a sequence of characters; "" is the empty sequence.
Empty == <<>>

\* No facade is read.
NoProxy ==
    /\ app = [proxy |-> FALSE, maxIpsCount |-> 0,
              proxyIpHeader |-> "x-forwarded-for"]
    /\ reqHeaders = [f \in {"host", ":authority", "x-forwarded-host",
                         "x-forwarded-proto", "x-forwarded-for"} |-> Empty]
    /\ conn = [httpVersionMajor |-> 1, encrypted |-> FALSE,
               remoteAddress |-> Empty]
    /\ IP = Empty
    /\ seen = [what |-> "nothing", value |-> Empty]

\* No query is read.
NoQuery ==
    /\ url = <<"/">> /\ originalUrl = [context |-> <<"/">>, request |-> <<"/">>]
    /\ querycache = {} /\ given = <<>> /\ assigned = "nothing" /\ assigns = 0
    /\ got = [what |-> "nothing", value |-> Empty]

\* No request is being handled.
NoCtx ==
    /\ als = FALSE /\ heap = <<>> /\ tasks = <<>> /\ running = 0
    /\ stores = <<>> /\ read = [by |-> 0, value |-> 0]

\* createContext has run on a fresh http.ServerResponse (statusCode 200,
\* nothing staged, nothing sent); handleRequest has not.
InitOf(s) ==
    /\ study = s
    /\ pc = "created"
    /\ chain = "pending"
    /\ req \in [method : {"GET", "HEAD"}, httpVersionMajor : {1, 2}]
    /\ ctx = [statusCode |-> 200, headersSent |-> FALSE,
              writableEnded |-> FALSE, header |-> NoHeaders, payload |-> "",
              body |-> Undefined, explicitStatus |-> FALSE,
              explicitNullBody |-> FALSE, respond |-> TRUE]
    /\ socket = "open"
    /\ observer = "unset"
    /\ ops = 0
    /\ thrown = NoErr
    /\ err = [o \in Origins |-> NoErr]
    /\ emitted = <<>>
    /\ calls = <<>>
    /\ NoChain /\ NoProxy /\ NoQuery /\ NoCtx

Init == InitOf("response")

InitErr == InitOf("failure")

\* As if res.statusCode = 404 were missing.
handleRequestNoDefault ==
    /\ pc = "created"
    /\ pc' = "chain"
    /\ observer' = "armed"
    /\ UNCHANGED <<chain, req, ctx, socket, ops, thrown, err, emitted, calls,
                   study>>

\* handleRequest up to the call of the composed middleware:
\* res.statusCode = 404; onFinished(res, onerror); fnMiddleware(ctx)
handleRequest ==
    /\ pc = "created"
    /\ pc' = "chain"
    /\ ctx' = [ctx EXCEPT !.statusCode = 404]
    /\ observer' = "armed"
    /\ UNCHANGED <<chain, req, socket, ops, thrown, err, emitted, calls, study>>

\* One operation of a middleware on the Context.
Middleware(c1) ==
    /\ pc = "chain"
    /\ ops < (IF study = "failure" THEN MaxErrOps ELSE MaxOps)
    /\ ops' = ops + 1
    /\ ctx' = c1
    /\ UNCHANGED <<pc, chain, req, socket, observer, thrown, err, emitted, calls,
                   study>>

\* ctx.status = code
MwStatus == \E code \in {200, 204, 304} : Middleware(setStatus(ctx, code))

\* ctx.body = val
MwBody == \E val \in Bodies : Middleware(setBody(ctx, val))

\* ctx.set(field, val)
MwSet ==
    \E h \in { [NoHeaders EXCEPT !.x = "from-middleware"],
               [NoHeaders EXCEPT !.te = "chunked"],
               [NoHeaders EXCEPT !.cl = 99] } :
        Middleware(setHeaders(ctx, h))

\* ctx.flushHeaders()
MwFlushHeaders == Middleware([ctx EXCEPT !.headersSent = TRUE])

\* ctx.respond = false
MwBypass == Middleware([ctx EXCEPT !.respond = FALSE])

\* ctx.res.end('raw'): the middleware writes the response itself
MwEnd == /\ ~ctx.writableEnded
         /\ Middleware(end(ctx, "raw"))

\* fnMiddleware(ctx) resolves: .then(handleResponse) is due
ChainResolve ==
    /\ pc = "chain"
    /\ pc' = "then"
    /\ chain' = "resolved"
    /\ UNCHANGED <<req, ctx, socket, observer, ops, thrown, err, emitted, calls, study>>

\* As if handleRequest were fnMiddleware(ctx).finally(handleResponse): the
\* rejection reaches respond.
ChainRejectIntoRespond ==
    /\ pc = "chain"
    /\ \E e \in (IF study = "failure" THEN Errors ELSE FewErrors) : thrown' = e
    /\ pc' = "then"
    /\ chain' = "rejected"
    /\ UNCHANGED <<req, ctx, socket, observer, ops, err, emitted, calls, study>>

\* fnMiddleware(ctx) rejects with e: .catch(onerror) is due
ChainReject ==
    /\ pc = "chain"
    /\ \E e \in (IF study = "failure" THEN Errors ELSE FewErrors) : thrown' = e
    /\ pc' = "catch"
    /\ chain' = "rejected"
    /\ UNCHANGED <<req, ctx, socket, observer, ops, err, emitted, calls, study>>

\* As if what respond throws went nowhere.
HandleResponseUncaught ==
    /\ pc = "then"
    /\ LET r == respond(ctx, socket = "open", req)
       IN  /\ ctx' = r.c
           /\ pc' = "done"
           /\ thrown' = IF r.threw THEN StringifyErr ELSE thrown
    /\ calls' = Append(calls, [fn |-> "respond", by |-> "then", origin |-> ""])
    /\ UNCHANGED <<chain, req, socket, observer, ops, err, emitted, study>>

\* handleResponse = () => respond(ctx); what it throws goes to .catch
HandleResponse ==
    /\ pc = "then"
    /\ LET r == respond(ctx, socket = "open", req)
       IN  /\ ctx' = r.c
           /\ pc' = IF r.threw THEN "catch" ELSE "done"
           /\ thrown' = IF r.threw THEN StringifyErr ELSE thrown
    /\ calls' = Append(calls, [fn |-> "respond", by |-> "then", origin |-> ""])
    /\ UNCHANGED <<chain, req, socket, observer, ops, err, emitted, study>>

\* const onerror = err => ctx.onerror(err), called by `by` with e of origin o
CallOnError(by, o, e) ==
    LET r == onerror(ctx, socket = "open", e)
    IN  /\ ctx' = r.c
        /\ err' = [err EXCEPT ![o] = r.err]
        /\ emitted' = IF r.emit THEN Append(emitted, o) ELSE emitted
        /\ calls' = Append(calls, [fn |-> "onerror", by |-> by,
                                   origin |-> IF e.absent THEN "" ELSE o])

\* .catch(onerror)
Catch ==
    /\ pc = "catch"
    /\ CallOnError("catch", IF chain = "rejected" THEN "chain" ELSE "respond",
                   thrown)
    /\ pc' = "done"
    /\ UNCHANGED <<chain, req, socket, observer, ops, thrown, study>>

\* The connection breaks: with an 'error' event of the socket, or without.
SocketFail ==
    /\ pc # "created"
    /\ socket = "open"
    /\ observer = "armed"
    /\ socket' \in {"error", "closed"}
    /\ UNCHANGED <<pc, chain, req, ctx, observer, ops, thrown, err, emitted,
                   calls, study>>

\* The on-finished listener fires, once: onerror(err) with the socket's
\* error, or with none when the response finished or the socket closed.
Finished ==
    /\ observer = "armed"
    /\ socket # "open" \/ ctx.writableEnded
    /\ observer' = "fired"
    /\ CallOnError("finished", "socket",
                   IF socket = "error" THEN SocketErr ELSE NoErr)
    /\ UNCHANGED <<pc, chain, req, socket, ops, thrown, study>>

\* Nothing but the one request moves.
OnlyLife == UNCHANGED <<chainVars, proxyVars, queryVars, ctxVars>>

Next ==
    \/ handleRequest /\ OnlyLife
    \/ MwStatus /\ OnlyLife
    \/ MwBody /\ OnlyLife
    \/ MwSet /\ OnlyLife
    \/ MwFlushHeaders /\ OnlyLife
    \/ MwBypass /\ OnlyLife
    \/ MwEnd /\ OnlyLife
    \/ ChainResolve /\ OnlyLife
    \/ ChainReject /\ OnlyLife
    \/ HandleResponse /\ OnlyLife
    \/ Catch /\ OnlyLife
    \/ SocketFail /\ OnlyLife
    \/ Finished /\ OnlyLife

Spec == Init /\ [][Next]_vars

SpecErr == InitErr /\ [][Next]_vars

----------------------------------------------------------------------------
(* lib/application.js: use, callback, and the chain that this.compose      *)
(* (koa-compose) makes of app.middleware.  A handler is followed as the    *)
(* sequence of things it does around its next() calls.                     *)

\* The handlers registered: one that awaits next() between two pieces of
\* code, one that never calls next, one that awaits next() twice, one that
\* throws, and two that wrap their next() calls in try / catch.
Kinds == {"pass", "stop", "twice", "throws", "guard", "twiceGuard"}

\* What a handler of each kind does, in order.
Program(kind) ==
    CASE kind \in {"pass", "guard"} -> <<"log", "next", "log">>
      [] kind = "stop" -> <<"log">>
      [] kind \in {"twice", "twiceGuard"} -> <<"log", "next", "next", "log">>
      [] kind = "throws" -> <<"log", "throw">>

\* The handler catches what its awaited next() calls reject with, and goes
\* on with the code after them.
Catches(kind) == kind \in {"guard", "twiceGuard"}

\* What a handler logs: "only" if it never calls next, else "before" ahead of
\* its next() calls and "after" behind them.
Label(kind, at) ==
    IF \A k \in 1..Len(Program(kind)) : Program(kind)[k] # "next" THEN "only"
    ELSE IF at = 1 THEN "before" ELSE "after"

\* As if use() put the handler in front of the list.
unshift(list, fn) == <<fn>> \o list

\* this.middleware.push(fn)
push(list, fn) == Append(list, fn)

\* As if callback() composed a copy of the list.
ChainOfCopy(taken, list) == taken

\* The handlers a composed chain dispatches to.  callback() hands
\* this.middleware itself to compose, which reads middleware[i] and
\* middleware.length when it dispatches: the list as it is now, not as it
\* was taken.
ChainOf(taken, list) == list

\* As if the composer did not count its dispatches.
RefusedNever(i, idx) == FALSE

\* if (i <= index) return Promise.reject(new Error('next() called multiple
\* times'))
Refused(i, idx) == i <= idx

\* As if handleRequest passed every outcome to handleResponse.
settleAlwaysRespond(o) == "respond"

\* fnMiddleware(ctx).then(handleResponse).catch(onerror)
settle(o) == IF o = "resolved" THEN "respond" ELSE "onerror"

\* The invocation of the handler at position j of the list.
enter(list, j) == [h |-> list[j], pos |-> j, at |-> 1, waiting |-> "no"]

\* The invocation that runs, and what it is about to do.
Top == stack[Len(stack)]

Op == IF Top.at <= Len(Program(Top.h.kind))
      THEN Program(Top.h.kind)[Top.at] ELSE "return"

Running == outcome = "running" /\ stack # <<>>

Pop == SubSeq(stack, 1, Len(stack) - 1)

Replace(f) == [stack EXCEPT ![Len(stack)] = f]

\* The chain the request goes through.
Chain == ChainOf(handlers[serving], middleware)

\* The invocation on top ends, giving r to the next() call that awaits it,
\* or to the caller of the chain when it is the outermost.
Leave(r) ==
    /\ stack' = Pop
    /\ ret' = r
    /\ outcome' = IF Len(stack) > 1 THEN outcome
                  ELSE IF r = "ok" THEN "resolved" ELSE "rejected"

\* app.use(fn)
use ==
    \E k \in Kinds :
       /\ Len(middleware) < MaxHandlers
       /\ middleware' = push(middleware, [id |-> Len(middleware) + 1,
                                          kind |-> k])
       /\ UNCHANGED <<handlers, serving, index, stack, ret, trace, outcome,
                      handled, requests>>

\* app.callback(): fn = this.compose(this.middleware)
callback ==
    /\ Len(handlers) < MaxCallbacks
    /\ handlers' = Append(handlers, middleware)
    /\ UNCHANGED <<middleware, serving, index, stack, ret, trace, outcome,
                   handled, requests>>

\* A request handler is called: fnMiddleware(ctx) is dispatch(0).
Request ==
    \E h \in 1..Len(handlers) :
       /\ outcome = "idle" \/ handled # "none"
       /\ requests < MaxRequests
       /\ requests' = requests + 1
       /\ serving' = h
       /\ index' = 1
       /\ trace' = <<>>
       /\ handled' = "none"
       /\ LET list == ChainOf(handlers[h], middleware)
          IN  IF Len(list) >= 1
              THEN /\ stack' = <<enter(list, 1)>>
                   /\ ret' = "none"
                   /\ outcome' = "running"
              ELSE /\ stack' = <<>>
                   /\ ret' = "ok"
                   /\ outcome' = "resolved"
       /\ UNCHANGED <<middleware, handlers>>

\* The code of a handler around its next() calls.
Log ==
    /\ Running /\ Top.waiting = "no" /\ Op = "log"
    /\ trace' = Append(trace, [id |-> Top.h.id,
                               ev |-> Label(Top.h.kind, Top.at)])
    /\ stack' = Replace([Top EXCEPT !.at = @ + 1])
    /\ UNCHANGED <<middleware, handlers, serving, index, ret, outcome,
                   handled, requests>>

\* await next(): dispatch(i + 1).  A position already dispatched is refused;
\* past the end of the list there is nothing to run and the call resolves.
CallNext ==
    /\ Running /\ Top.waiting = "no" /\ Op = "next"
    /\ LET j == Top.pos + 1
       IN  IF Refused(j, index)
           THEN /\ trace' = Append(trace, [id |-> Top.h.id, ev |-> "refused"])
                /\ stack' = Replace([Top EXCEPT !.waiting = "refused"])
                /\ ret' = "multiple"
                /\ index' = index
           ELSE /\ trace' = Append(trace, [id |-> Top.h.id, ev |-> "down"])
                /\ index' = j
                /\ IF j <= Len(Chain)
                   THEN /\ stack' = Append(Replace([Top EXCEPT
                                                     !.waiting = "call"]),
                                           enter(Chain, j))
                        /\ ret' = "none"
                   ELSE /\ stack' = Replace([Top EXCEPT !.waiting = "call"])
                        /\ ret' = "ok"
    /\ UNCHANGED <<middleware, handlers, serving, outcome, handled, requests>>

\* The awaited next() call settles and its caller goes on: behind the call
\* when it resolved, in its catch block when it rejected and the handler has
\* one; else the handler rejects with the same failure.
Resume ==
    /\ Running /\ Top.waiting # "no" /\ ret # "none"
    /\ trace' = IF Top.waiting = "call"
                THEN Append(trace, [id |-> Top.h.id, ev |-> "up"])
                ELSE trace
    /\ IF ret = "ok"
       THEN /\ stack' = Replace([Top EXCEPT !.at = @ + 1, !.waiting = "no"])
            /\ ret' = "none"
            /\ UNCHANGED outcome
       ELSE IF Catches(Top.h.kind)
       THEN /\ stack' = Replace([Top EXCEPT
                                   !.at = Len(Program(Top.h.kind)),
                                   !.waiting = "no"])
            /\ ret' = "none"
            /\ UNCHANGED outcome
       ELSE Leave(ret)
    /\ UNCHANGED <<middleware, handlers, serving, index, handled, requests>>

\* The handler throws.
Throw ==
    /\ Running /\ Top.waiting = "no" /\ Op = "throw"
    /\ Leave("thrown")
    /\ UNCHANGED <<middleware, handlers, serving, index, trace, handled,
                   requests>>

\* The handler returns.
Return ==
    /\ Running /\ Top.waiting = "no" /\ Op = "return"
    /\ Leave("ok")
    /\ UNCHANGED <<middleware, handlers, serving, index, trace, handled,
                   requests>>

\* handleRequest: the outcome of the chain goes to handleResponse or to
\* ctx.onerror.
Deliver ==
    /\ outcome \in {"resolved", "rejected"} /\ handled = "none"
    /\ handled' = settle(outcome)
    /\ UNCHANGED <<middleware, handlers, serving, index, stack, ret, trace,
                   outcome, requests>>

\* The request-life variables where only the chain is followed.
NoLife ==
    /\ pc = "idle" /\ chain = "pending"
    /\ req = [method |-> "GET", httpVersionMajor |-> 1]
    /\ ctx = [statusCode |-> 200, headersSent |-> FALSE,
              writableEnded |-> FALSE, header |-> NoHeaders, payload |-> "",
              body |-> Undefined, explicitStatus |-> FALSE,
              explicitNullBody |-> FALSE, respond |-> TRUE]
    /\ socket = "open" /\ observer = "unset" /\ ops = 0
    /\ thrown = NoErr /\ err = [o \in Origins |-> NoErr]
    /\ emitted = <<>> /\ calls = <<>>

InitChain ==
    study = "chain" /\ NoLife /\ NoChain /\ NoProxy /\ NoQuery /\ NoCtx

\* Nothing but the middleware list and the chain moves.
OnlyChain == UNCHANGED <<lifeVars, proxyVars, queryVars, ctxVars>>

NextChain ==
    \/ use /\ OnlyChain
    \/ callback /\ OnlyChain
    \/ Request /\ OnlyChain
    \/ Log /\ OnlyChain
    \/ CallNext /\ OnlyChain
    \/ Resume /\ OnlyChain
    \/ Throw /\ OnlyChain
    \/ Return /\ OnlyChain
    \/ Deliver /\ OnlyChain

SpecChain == InitChain /\ [][NextChain]_vars

----------------------------------------------------------------------------
(* lib/request.js: host, protocol, ips and ip.  A header value is a text,  *)
(* a sequence of characters: "," and " " are the comma and white space,    *)
(* any other stands for itself.                                            *)

\* The texts of at most n characters over the alphabet A.
RECURSIVE Texts(_, _)
Texts(A, n) ==
    IF n = 0 THEN {Empty}
    ELSE Texts(A, n - 1)
           \cup {Append(t, c) : t \in {u \in Texts(A, n - 1) : Len(u) = n - 1},
                                c \in A}

\* A text without the white space at its end.
RECURSIVE rtrim(_)
rtrim(t) ==
    IF t # Empty /\ t[Len(t)] = " " THEN rtrim(SubSeq(t, 1, Len(t) - 1))
    ELSE t

\* The rest of str.split(/\s*,\s*/): cur is the piece being read, and
\* skipping says that a comma has just been passed.  A comma ends the piece
\* with the white space before it and takes the white space after it.
RECURSIVE splitRest(_, _, _)
splitRest(str, cur, skipping) ==
    IF str = Empty THEN <<cur>>
    ELSE IF Head(str) = "," THEN <<rtrim(cur)>> \o splitRest(Tail(str), Empty, TRUE)
    ELSE IF Head(str) = " " /\ skipping THEN splitRest(Tail(str), cur, TRUE)
    ELSE splitRest(Tail(str), Append(cur, Head(str)), FALSE)

\* str.split(/\s*,\s*/)
split(str) == splitRest(str, Empty, FALSE)

\* list.slice(-n), for n > 0: the last n entries
sliceLast(list, n) ==
    IF Len(list) <= n THEN list ELSE SubSeq(list, Len(list) - n + 1, Len(list))

\* As if slice kept the first entries.
sliceFirst(list, n) ==
    IF Len(list) <= n THEN list ELSE SubSeq(list, 1, n)

\* request.get(field): req.headers[field] || ''
get(hs, field) == hs[field]

\* As if the host getter read X-Forwarded-Host whatever app.proxy is.
hostTrusting(a, hs, c) ==
    LET fwd == get(hs, "x-forwarded-host")
        host == IF fwd # Empty THEN fwd ELSE get(hs, "host")
    IN  IF host = Empty THEN Empty ELSE Head(split(host))

\* get host
host(a, hs, c) ==
    LET fwd == IF a.proxy THEN get(hs, "x-forwarded-host") ELSE Empty
        authority == IF c.httpVersionMajor >= 2 THEN get(hs, ":authority")
                     ELSE Empty
        h == IF fwd # Empty THEN fwd
             ELSE IF authority # Empty THEN authority
             ELSE get(hs, "host")
    IN  IF h = Empty THEN Empty ELSE Head(split(h))

\* get protocol
protocol(a, hs, c) ==
    IF c.encrypted THEN <<"https">>
    ELSE IF ~a.proxy THEN <<"http">>
    ELSE LET proto == get(hs, "x-forwarded-proto")
         IN  IF proto # Empty THEN Head(split(proto)) ELSE <<"http">>

\* As if ips kept the leading entries.
ipsLeading(a, hs) ==
    LET val == get(hs, a.proxyIpHeader)
        list == IF a.proxy /\ val # Empty THEN split(val) ELSE <<>>
    IN  IF a.maxIpsCount > 0 THEN sliceFirst(list, a.maxIpsCount) ELSE list

\* get ips
ips(a, hs) ==
    LET val == get(hs, a.proxyIpHeader)
        list == IF a.proxy /\ val # Empty THEN split(val) ELSE <<>>
    IN  IF a.maxIpsCount > 0 THEN sliceLast(list, a.maxIpsCount) ELSE list

\* this.ips[0] || this.socket.remoteAddress || ''
ipFresh(a, hs, c) ==
    IF ips(a, hs) # <<>> /\ ips(a, hs)[1] # Empty THEN ips(a, hs)[1]
    ELSE c.remoteAddress

\* get ip: what request[IP] holds after the read, which is what is returned
ip(a, hs, c, kept) == IF kept = Empty THEN ipFresh(a, hs, c) ELSE kept

\* What the requests read say of their host themselves: the Host header,
\* the :authority pseudo-header, the HTTP version.
Directs ==
    { [host |-> <<"h", ",", "g">>, authority |-> Empty, major |-> 1],
      [host |-> <<"h", ",", "g">>, authority |-> <<"u">>, major |-> 1],
      [host |-> <<"h", ",", "g">>, authority |-> <<"u">>, major |-> 2],
      [host |-> Empty, authority |-> Empty, major |-> 2] }

\* What a proxy says of their host and protocol.
Forwards ==
    { [host |-> Empty, proto |-> Empty],
      [host |-> <<"f", " ", ",", "e">>,
       proto |-> <<"https", ",", " ", "http">>] }

\* The requests read: with or without a trusted proxy, over HTTP/1 or
\* HTTP/2, on a plain or an encrypted socket, with any forwarded-for header.
InitProxy ==
    /\ study = "proxy" /\ NoLife /\ NoChain /\ NoQuery /\ NoCtx
    /\ app \in [proxy : BOOLEAN, maxIpsCount : {0, 1, 2},
                proxyIpHeader : {"x-forwarded-for"}]
    /\ \E d \in Directs, fwd \in Forwards,
          xff \in Texts({"a", "b", ",", " "}, MaxHeaderLen) :
          /\ reqHeaders =
               [f \in {"host", ":authority", "x-forwarded-host",
                       "x-forwarded-proto", "x-forwarded-for"} |->
                  CASE f = "host" -> d.host
                    [] f = ":authority" -> d.authority
                    [] f = "x-forwarded-host" -> fwd.host
                    [] f = "x-forwarded-proto" -> fwd.proto
                    [] f = "x-forwarded-for" -> xff]
          /\ conn \in [httpVersionMajor : {d.major}, encrypted : BOOLEAN,
                       remoteAddress : {Empty, <<"r">>}]
    /\ IP = Empty
    /\ seen = [what |-> "nothing", value |-> Empty]

\* ctx.host is read
ReadHost ==
    /\ seen' = [what |-> "host", value |-> host(app, reqHeaders, conn)]
    /\ UNCHANGED <<app, reqHeaders, conn, IP>>

\* ctx.protocol is read
ReadProtocol ==
    /\ seen' = [what |-> "protocol", value |-> protocol(app, reqHeaders, conn)]
    /\ UNCHANGED <<app, reqHeaders, conn, IP>>

\* ctx.ips is read
ReadIps ==
    /\ seen' = [what |-> "ips", value |-> ips(app, reqHeaders)]
    /\ UNCHANGED <<app, reqHeaders, conn, IP>>

\* ctx.ip is read
ReadIp ==
    /\ IP' = ip(app, reqHeaders, conn, IP)
    /\ seen' = [what |-> "ip", value |-> IP']
    /\ UNCHANGED <<app, reqHeaders, conn>>

\* ctx.ip = _ip
SetIp ==
    /\ IP' = <<"set">>
    /\ UNCHANGED <<app, reqHeaders, conn, seen>>

\* Nothing but the facade moves.
OnlyProxy == UNCHANGED <<lifeVars, chainVars, queryVars, ctxVars>>

NextProxy ==
    \/ ReadHost /\ OnlyProxy
    \/ ReadProtocol /\ OnlyProxy
    \/ ReadIps /\ OnlyProxy
    \/ ReadIp /\ OnlyProxy
    \/ SetIp /\ OnlyProxy

SpecProxy == InitProxy /\ [][NextProxy]_vars

----------------------------------------------------------------------------
(* lib/request.js: query and querystring.  A URL, a query string, a key    *)
(* and a value are texts; an object is the sequence of its properties      *)
(* [k, v], in the order of Object.keys.                                    *)

\* The characters that querystring.escape leaves as they are.
Unreserved == {"a", "b", "p", "0", "2", "3", "5", "6", "B", "D", "F"}

\* The two hexadecimal digits of a character's code.
Hex(c) ==
    CASE c = "&" -> <<"2", "6">> [] c = "=" -> <<"3", "D">>
      [] c = "%" -> <<"2", "5">> [] c = "+" -> <<"2", "B">>
      [] c = " " -> <<"2", "0">> [] c = "?" -> <<"3", "F">>
      [] c = "#" -> <<"2", "3">>

\* The characters that have a code here.
Coded == {"&", "=", "%", "+", " ", "?", "#"}

\* querystring.escape(str): every character but the unreserved ones becomes
\* % and its code.
RECURSIVE qsEscape(_)
qsEscape(str) ==
    IF str = Empty THEN Empty
    ELSE (IF Head(str) \in Unreserved THEN <<Head(str)>>
          ELSE <<"%">> \o Hex(Head(str))) \o qsEscape(Tail(str))

\* querystring.unescape(str): % and a code become the character; a % that
\* no code follows stays.
RECURSIVE qsUnescape(_)
qsUnescape(str) ==
    IF str = Empty THEN Empty
    ELSE IF /\ Head(str) = "%" /\ Len(str) >= 3
            /\ \E c \in Coded : Hex(c) = SubSeq(str, 2, 3)
    THEN <<CHOOSE c \in Coded : Hex(c) = SubSeq(str, 2, 3)>>
           \o qsUnescape(SubSeq(str, 4, Len(str)))
    ELSE <<Head(str)>> \o qsUnescape(Tail(str))

\* As if the object were written without escaping.
qsStringifyRaw(obj) ==
    LET RECURSIVE join(_)
        join(o) ==
           IF o = <<>> THEN Empty
           ELSE Head(o).k \o <<"=">> \o Head(o).v
                  \o (IF Len(o) > 1 THEN <<"&">> ELSE Empty) \o join(Tail(o))
    IN  join(obj)

\* qs.stringify(obj): escape(k) = escape(v), joined with &
RECURSIVE qsStringify(_)
qsStringify(obj) ==
    IF obj = <<>> THEN Empty
    ELSE qsEscape(Head(obj).k) \o <<"=">> \o qsEscape(Head(obj).v)
           \o (IF Len(obj) > 1 THEN <<"&">> ELSE Empty)
           \o qsStringify(Tail(obj))

\* Where the character c first is in str (0: nowhere).
IndexOf(str, c) ==
    IF \E n \in 1..Len(str) : str[n] = c
    THEN CHOOSE n \in 1..Len(str) :
            str[n] = c /\ \A m \in 1..(n - 1) : str[m] # c
    ELSE 0

\* str.split(c)
RECURSIVE splitOn(_, _)
splitOn(str, c) ==
    IF IndexOf(str, c) = 0 THEN <<str>>
    ELSE <<SubSeq(str, 1, IndexOf(str, c) - 1)>>
           \o splitOn(SubSeq(str, IndexOf(str, c) + 1, Len(str)), c)

\* A text with a space for every +.
plusToSpace(str) == [n \in 1..Len(str) |-> IF str[n] = "+" THEN " " ELSE str[n]]

\* One piece of a query string as a property: the key is what is before the
\* first =, the value what is behind it, both with + as a space and
\* unescaped.
property(piece) ==
    LET eq == IndexOf(piece, "=")
        k == IF eq = 0 THEN piece ELSE SubSeq(piece, 1, eq - 1)
        v == IF eq = 0 THEN Empty ELSE SubSeq(piece, eq + 1, Len(piece))
    IN  [k |-> qsUnescape(plusToSpace(k)), v |-> qsUnescape(plusToSpace(v))]

\* qs.parse(str): the properties of the pieces between the &, without the
\* empty pieces.  The keys of a query string are distinct here, so that no
\* value is an array.
qsParse(str) ==
    LET pieces == SelectSeq(splitOn(str, "&"), LAMBDA q : q # Empty)
    IN  [n \in 1..Len(pieces) |-> property(pieces[n])]

\* /^https?:\/\//i.test(str): the scheme and host an absolute URL starts with
\* are one character of a text
absolute(str) == str # Empty /\ Head(str) = "http://h"

\* parseurl(req): pathname, search and query of req.url, cut at the first ?
\* (search and query are null without one), behind the scheme and host of an
\* absolute URL
parse(u) ==
    LET rest == IF absolute(u) THEN Tail(u) ELSE u
        q == IndexOf(rest, "?")
    IN  IF q = 0 THEN [origin |-> IF absolute(u) THEN <<Head(u)>> ELSE Empty,
                       pathname |-> rest, hasSearch |-> FALSE,
                       search |-> Empty, query |-> Empty]
        ELSE [origin |-> IF absolute(u) THEN <<Head(u)>> ELSE Empty,
              pathname |-> SubSeq(rest, 1, q - 1), hasSearch |-> TRUE,
              search |-> SubSeq(rest, q, Len(rest)),
              query |-> SubSeq(rest, q + 1, Len(rest))]

\* A text with %23 for every #.
RECURSIVE escapeHash(_)
escapeHash(str) ==
    IF str = Empty THEN Empty
    ELSE (IF Head(str) = "#" THEN <<"%", "2", "3">> ELSE <<Head(str)>>)
           \o escapeHash(Tail(str))

\* A pathname with %3F for every ? and %23 for every #.
RECURSIVE escapePathname(_)
escapePathname(str) ==
    IF str = Empty THEN Empty
    ELSE (IF Head(str) = "?" THEN <<"%", "3", "F">>
          ELSE IF Head(str) = "#" THEN <<"%", "2", "3">>
          ELSE <<Head(str)>>)
           \o escapePathname(Tail(str))

\* url.format(parsed), of a parsed req.url with its pathname or its search
\* replaced: scheme and host, the pathname with its ? and # escaped, and the
\* search behind a ? if it has none, with its # escaped
stringify(parsed) ==
    parsed.origin \o escapePathname(parsed.pathname)
       \o (IF parsed.search = Empty THEN Empty
           ELSE IF Head(parsed.search) = "?" THEN escapeHash(parsed.search)
           ELSE <<"?">> \o escapeHash(parsed.search))

\* As if querystring were the search of the URL.
querystringWithMark(u) == parse(u).search

\* get querystring
querystring(u) == parse(u).query

\* set path: req.url after the assignment
setPath(u, pathname) ==
    IF parse(u).pathname = pathname THEN u
    ELSE stringify([parse(u) EXCEPT !.pathname = pathname])

\* set querystring: req.url after the assignment
setQuerystring(u, str) ==
    IF parse(u).hasSearch /\ parse(u).search = <<"?">> \o str THEN u
    ELSE stringify([parse(u) EXCEPT !.search = str])

\* set query: req.url after the assignment
setQuery(u, obj) == setQuerystring(u, qsStringify(obj))

\* get query: the parse kept for the query string, or a new one, which is
\* kept
cached(c, str) == \E e \in c : e.str = str

\* The names the object literal of the cache inherits a member under, from
\* Object.prototype.
Inherited == {<<"v", "a", "l", "u", "e", "O", "f">>}

\* The function inherited under a name: no parse is it.
Member(str) == <<[k |-> <<"function">>, v |-> str]>>

query(c, str) ==
    IF str \in Inherited THEN Member(str)
    ELSE IF cached(c, str) THEN (CHOOSE e \in c : e.str = str).obj
    ELSE qsParse(str)

\* get origin, of the protocol and the host read
origin(proto, hostname) == proto \o <<"://">> \o hostname

\* As if href were made of req.url.
hrefOfUrl(this) ==
    IF absolute(this.url) THEN this.url
    ELSE this.origin \o this.url

\* get href, of a Request with its originalUrl, its origin and its req.url
href(this) ==
    IF absolute(this.originalUrl) THEN this.originalUrl
    ELSE this.origin \o this.originalUrl

\* The keys and the values of the objects assigned.
Keys == {Empty, <<"a">>, <<"&", "=">>}

Values == {Empty, <<"=", "&", " ", "?", "#">>, <<"%", "2", "6", "+">>}

Properties == [k : Keys, v : Values]

\* The objects assigned: no property, one, or two of different keys.
Objects ==
    {<<>>} \cup {<<q>> : q \in Properties}
           \cup {<<o[1], o[2]>> :
                   o \in {x \in Properties \X Properties : x[1].k # x[2].k}}

\* The URLs the requests come with.
Urls ==
    { <<"/">>, <<"/", "p">>, <<"/", "p", "?">>,
      <<"/", "p", "?", "a", "=", "b">>,
      <<"http://h", "/", "p", "?", "a", "=", "b">> }

\* The pathnames assigned.
Paths == {Empty, <<"/", "p">>, <<"/", "q">>, <<"/", "q", "?", "#">>}

\* The query strings and the searches assigned.
Strings ==
    {Empty, <<"a", "=", "b">>, <<"?", "a">>, <<"b", "=", "#">>} \cup Inherited

InitQuery ==
    /\ study = "query" /\ NoLife /\ NoChain /\ NoProxy /\ NoCtx
    /\ url \in Urls
    /\ originalUrl = [context |-> url, request |-> url]
    /\ querycache = {} /\ given = <<>> /\ assigned = "nothing" /\ assigns = 0
    /\ got = [what |-> "nothing", value |-> Empty]

\* ctx.query = obj
SetQuery ==
    \E obj \in Objects :
       /\ assigns < MaxAssigns
       /\ assigns' = assigns + 1
       /\ url' = setQuery(url, obj)
       /\ given' = obj
       /\ assigned' = "query"
       /\ got' = [what |-> "nothing", value |-> Empty]
       /\ UNCHANGED <<originalUrl, querycache>>

\* ctx.url = val
SetUrl ==
    \E val \in Urls :
       /\ assigns < MaxAssigns
       /\ assigns' = assigns + 1
       /\ url' = val
       /\ assigned' = "url"
       /\ got' = [what |-> "nothing", value |-> Empty]
       /\ UNCHANGED <<originalUrl, querycache, given>>

\* ctx.path = pathname
SetPath ==
    \E pathname \in Paths :
       /\ assigns < MaxAssigns
       /\ assigns' = assigns + 1
       /\ url' = setPath(url, pathname)
       /\ assigned' = "path"
       /\ got' = [what |-> "nothing", value |-> Empty]
       /\ UNCHANGED <<originalUrl, querycache, given>>

\* ctx.querystring = str
SetQuerystring ==
    \E str \in Strings :
       /\ assigns < MaxAssigns
       /\ assigns' = assigns + 1
       /\ url' = setQuerystring(url, str)
       /\ assigned' = "querystring"
       /\ got' = [what |-> "nothing", value |-> Empty]
       /\ UNCHANGED <<originalUrl, querycache, given>>

\* ctx.search = str
SetSearch ==
    \E str \in Strings :
       /\ assigns < MaxAssigns
       /\ assigns' = assigns + 1
       /\ url' = setQuerystring(url, str)
       /\ assigned' = "search"
       /\ got' = [what |-> "nothing", value |-> Empty]
       /\ UNCHANGED <<originalUrl, querycache, given>>

\* ctx.querystring is read
ReadQuerystring ==
    /\ got' = [what |-> "querystring", value |-> querystring(url)]
    /\ UNCHANGED <<url, originalUrl, querycache, given, assigned, assigns>>

\* ctx.query is read
ReadQuery ==
    /\ got' = [what |-> "query", value |-> query(querycache, querystring(url))]
    /\ querycache' = IF querystring(url) \in Inherited THEN querycache
                     ELSE querycache \cup {[str |-> querystring(url),
                                            obj |-> got'.value]}
    /\ UNCHANGED <<url, originalUrl, given, assigned, assigns>>

\* ctx.href is read
ReadHref ==
    /\ got' = [what |-> "href",
               value |-> href([originalUrl |-> originalUrl.request,
                               origin |-> origin(protocol(app, reqHeaders, conn),
                                                 host(app, reqHeaders, conn)),
                               url |-> url])]
    /\ UNCHANGED <<url, originalUrl, querycache, given, assigned, assigns>>

\* Nothing but the query moves.
OnlyQuery == UNCHANGED <<lifeVars, chainVars, proxyVars, ctxVars>>

NextQuery ==
    \/ SetQuery /\ OnlyQuery
    \/ SetUrl /\ OnlyQuery
    \/ SetPath /\ OnlyQuery
    \/ SetQuerystring /\ OnlyQuery
    \/ SetSearch /\ OnlyQuery
    \/ ReadQuerystring /\ OnlyQuery
    \/ ReadQuery /\ OnlyQuery
    \/ ReadHref /\ OnlyQuery

SpecQuery == InitQuery /\ [][NextQuery]_vars

----------------------------------------------------------------------------
(* lib/application.js: createContext, the request handler of callback and *)
(* app.currentContext, with several requests in flight.  An object is its  *)
(* place in the heap; 0 is undefined.  A request's code runs from one      *)
(* await to the next, one request at a time.                               *)

\* An object with nothing set.
Blank ==
    [kind |-> "object", req |-> 0, res |-> 0, ctx |-> 0, request |-> 0,
     response |-> 0, state |-> 0, props |-> ""]

\* As if every Context were given the state object of the first.
createContextSharedState(h, r) ==
    LET c == Len(h) + 1
    IN  h \o << [Blank EXCEPT !.kind = "context", !.req = r, !.res = r,
                              !.request = c + 1, !.response = c + 2,
                              !.state = 4],
                [Blank EXCEPT !.kind = "request", !.req = r, !.res = r,
                              !.ctx = c, !.response = c + 2],
                [Blank EXCEPT !.kind = "response", !.req = r, !.res = r,
                              !.ctx = c, !.request = c + 1],
                [Blank EXCEPT !.kind = "state"] >>

\* createContext(req, res): the heap with the new Context, its Request, its
\* Response and its state, wired to each other and to req and res
createContext(h, r) ==
    LET c == Len(h) + 1
    IN  h \o << [Blank EXCEPT !.kind = "context", !.req = r, !.res = r,
                              !.request = c + 1, !.response = c + 2,
                              !.state = c + 3],
                [Blank EXCEPT !.kind = "request", !.req = r, !.res = r,
                              !.ctx = c, !.response = c + 2],
                [Blank EXCEPT !.kind = "response", !.req = r, !.res = r,
                              !.ctx = c, !.request = c + 1],
                [Blank EXCEPT !.kind = "state"] >>

\* ctxStorage.run(ctx, fn): fn and what it awaits see ctx as the store
run(st, t, c) == [st EXCEPT ![t] = c]

\* ctxStorage.getStore(), in the async context of request t
getStore(st, t) == IF t = 0 THEN 0 ELSE st[t]

\* As if the request handler never entered the storage.
handleInBare(on, st, t, c) == Append(st, 0)

\* The request handler of callback(): handleRequest runs inside
\* ctxStorage.run(ctx, ...) when the application has a ctxStorage
handleIn(on, st, t, c) ==
    IF ~on THEN Append(st, 0) ELSE run(Append(st, 0), t, c)

\* get currentContext
currentContext(on, st, t) == IF on THEN getStore(st, t) ELSE 0

\* The values middleware writes to ctx.state.user.
Users == {"ann", "bob"}

InitCtx ==
    /\ study = "contexts" /\ NoLife /\ NoChain /\ NoProxy /\ NoQuery
    /\ als \in BOOLEAN
    /\ heap = <<>> /\ tasks = <<>> /\ running = 0 /\ stores = <<>>
    /\ read = [by |-> 0, value |-> 0]

\* The server calls the request handler with a new req and res: its Context
\* is created and its handling starts.
Arrive ==
    /\ running = 0 /\ Len(tasks) < MaxTasks
    /\ LET t == Len(tasks) + 1
       IN  /\ heap' = createContext(heap, t)
           /\ tasks' = Append(tasks, [ctx |-> Len(heap) + 1,
                                      at |-> "running", resumed |-> FALSE])
           /\ stores' = handleIn(als, stores, t, Len(heap) + 1)
           /\ running' = t
    /\ UNCHANGED <<als, read>>

\* The request's code awaits next() or I/O.
Suspend ==
    /\ running # 0
    /\ tasks' = [tasks EXCEPT ![running].at = "suspended"]
    /\ running' = 0
    /\ UNCHANGED <<als, heap, stores, read>>

\* What a request awaited settles and its code goes on.
Wake ==
    \E t \in 1..Len(tasks) :
       /\ running = 0 /\ tasks[t].at = "suspended"
       /\ tasks' = [tasks EXCEPT ![t].at = "running", ![t].resumed = TRUE]
       /\ running' = t
       /\ UNCHANGED <<als, heap, stores, read>>

\* ctx.state.user = v
WriteState ==
    \E v \in Users :
       /\ running # 0
       /\ heap' = [heap EXCEPT ![heap[tasks[running].ctx].state].props = v]
       /\ UNCHANGED <<als, tasks, running, stores, read>>

\* app.currentContext is read, in a request's code or outside any
ReadCurrent ==
    /\ read' = [by |-> running, value |-> currentContext(als, stores, running)]
    /\ UNCHANGED <<als, heap, tasks, running, stores>>

\* The request's handling ends.
Finish ==
    /\ running # 0
    /\ tasks' = [tasks EXCEPT ![running].at = "done"]
    /\ running' = 0
    /\ UNCHANGED <<als, heap, stores, read>>

\* Nothing but the Contexts moves.
OnlyCtx == UNCHANGED <<lifeVars, chainVars, proxyVars, queryVars>>

NextCtx ==
    \/ Arrive /\ OnlyCtx
    \/ Suspend /\ OnlyCtx
    \/ Wake /\ OnlyCtx
    \/ WriteState /\ OnlyCtx
    \/ ReadCurrent /\ OnlyCtx
    \/ Finish /\ OnlyCtx

SpecCtx == InitCtx /\ [][NextCtx]_vars

----------------------------------------------------------------------------
(* Properties.                                                             *)

\* The calls made by the promise chain of handleRequest (.then, .catch),
\* without those of the on-finished listener.
ChainCalls == SelectSeq(calls, LAMBDA k : k.by # "finished")

\* C1: a chain that resolves is followed by respond, and by ctx.onerror too
\* only if respond throws; a chain that rejects is followed by ctx.onerror
\* with the value it rejected with and never by respond.
C1_RespondOrRecover ==
    /\ chain = "pending" => ChainCalls = <<>>
    /\ chain = "rejected" =>
          /\ \A i \in 1..Len(calls) : calls[i].fn # "respond"
          /\ pc = "catch" => ChainCalls = <<>>
          /\ pc = "done" =>
                /\ ChainCalls = <<[fn |-> "onerror", by |-> "catch",
                                   origin |-> "chain"]>>
                /\ err["chain"] = [WrapNonError(thrown) EXCEPT
                                     !.headerSent = err["chain"].headerSent,
                                     !.status = err["chain"].status]
    /\ chain = "resolved" =>
          /\ pc = "then" => ChainCalls = <<>>
          /\ pc # "then" =>
                /\ ChainCalls # <<>>
                /\ ChainCalls[1] = [fn |-> "respond", by |-> "then", origin |-> ""]
                /\ \A i \in 2..Len(ChainCalls) : ChainCalls[i].fn # "respond"
          /\ err["chain"].absent

\* A request whose chain rejected has been recovered.
C1_Witness ==
    /\ chain = "rejected"
    /\ pc = "done"
    /\ ~err["chain"].absent
    /\ ctx.writableEnded

\* The step is a call of ctx.onerror with an error of origin o.
OnErrorStep(o) ==
    /\ Len(calls') = Len(calls) + 1
    /\ calls'[Len(calls')].fn = "onerror"
    /\ calls'[Len(calls')].origin = o

\* The error ctx.onerror is given for origin o.
Given(o) == IF o = "socket" THEN SocketErr ELSE thrown

\* C2: when ctx.onerror is called with an error while the headers are sent
\* or the response is no longer writable (ended, or its socket gone), it
\* leaves status, headers, body and payload as they are; it sets
\* err.headerSent on the (normalized) error and emits one 'error' event.
C2_CommittedRecoveryWritesNothing ==
    [][ \A o \in Origins :
          ( /\ OnErrorStep(o)
            /\ ctx.headersSent \/ ctx.writableEnded \/ socket # "open" )
          => /\ ctx' = ctx
             /\ emitted' = Append(emitted, o)
             /\ err'[o] = [WrapNonError(Given(o)) EXCEPT !.headerSent = TRUE]
      ]_vars

\* The chain rejected after the headers were flushed: the error is marked
\* and emitted, the response is still open and holds no payload.
C2_Witness ==
    /\ pc = "done"
    /\ chain = "rejected"
    /\ err["chain"].headerSent
    /\ emitted = <<"chain">>
    /\ ctx.headersSent /\ ~ctx.writableEnded /\ socket = "open"
    /\ ctx.payload = ""

\* Recovery rewrote the response for the error of origin o.
Rewritten(o) == ~err[o].absent /\ ~err[o].headerSent

\* C3: when recovery rewrites the response for an error that is not an
\* exposable Error, the payload is the reason phrase of the status written,
\* which is the status recorded on the error: the payload is a function of
\* the status alone, whatever the error's message.
C3_GenericBodyForUnexposed ==
    \A o \in {"chain", "respond"} :
        (Rewritten(o) /\ ~(thrown.native /\ thrown.expose))
        => /\ ctx.writableEnded
           /\ ctx.statusCode \in Codes
           /\ ctx.statusCode = err[o].status
           /\ ctx.payload = statuses[ctx.statusCode]

\* An unexposed error with a message of its own and status 418 was answered
\* with the phrase of 418.
C3_Witness ==
    /\ Rewritten("chain")
    /\ thrown.native /\ ~thrown.expose /\ thrown.message = "boom"
    /\ thrown.status = 418 /\ thrown.code = ""
    /\ ctx.payload = "I'm a teapot"

\* The step is .catch(onerror) rewriting the response for an exposable Error
\* whose status is a number of the table.
ExposedRecoveryStep ==
    /\ OnErrorStep("chain")
    /\ ~(ctx.headersSent \/ ctx.writableEnded \/ socket # "open")
    /\ thrown.native /\ thrown.expose /\ thrown.status \in Codes

KnownNumber(v) == v > 0 /\ v \in Codes

\* C5, as claimed: the explicit status first, then 404 for ENOENT, then 500;
\* 500 for what is not a number of the table.
C5_Original ==
    \A o \in {"chain", "respond"} :
        Rewritten(o) =>
            LET e == WrapNonError(thrown)
                explicit == IF e.status # 0 THEN e.status ELSE e.statusCode
                chosen == IF explicit # 0 THEN explicit
                          ELSE IF e.code = "ENOENT" THEN 404 ELSE 500
            IN  ctx.statusCode = IF KnownNumber(chosen) THEN chosen ELSE 500

\* C5, amended: 404 for ENOENT first, whatever status the error carries; then
\* the explicit status; then 500; 500 for what is not a number of the table.
\* The status written is in the table and is recorded on the error.
C5_ErrorStatusChosen ==
    \A o \in {"chain", "respond"} :
        Rewritten(o) =>
            LET e == WrapNonError(thrown)
                explicit == IF e.status # 0 THEN e.status ELSE e.statusCode
                chosen == IF e.code = "ENOENT" THEN 404
                          ELSE IF explicit # 0 THEN explicit ELSE 500
            IN  /\ ctx.statusCode = IF KnownNumber(chosen) THEN chosen ELSE 500
                /\ ctx.statusCode \in Codes
                /\ err[o].status = ctx.statusCode

\* An ENOENT error carrying status 418 was answered 404.
C5_Witness ==
    /\ Rewritten("chain")
    /\ thrown.native /\ thrown.code = "ENOENT" /\ thrown.status = 418
    /\ ctx.statusCode = 404

\* The origins of the onerror calls that were given an error, in call order.
ErrorCalls == SelectSeq(calls, LAMBDA k : k.fn = "onerror" /\ k.origin # "")

\* The handling failed: the promise chain of handleRequest rejected, or the
\* on-finished listener reported an error of the socket.
Failed == ~thrown.absent \/ ~err["socket"].absent

\* C6, as claimed: once the promise chain is over, a request whose handling
\* failed has emitted exactly one 'error' event and any other request none.
C6_Original == pc = "done" => Len(emitted) = (IF Failed THEN 1 ELSE 0)

\* C6, amended: each call of ctx.onerror with an error emits exactly one
\* 'error' event, carrying that error normalized, and a call without an error
\* emits none.  So a request emits one event for the failure of its chain (or
\* of respond), one more if the on-finished listener reports a socket error,
\* two at most, and none if neither happened.
C6_OneEventPerError ==
    /\ Len(emitted) = Len(ErrorCalls)
    /\ \A i \in 1..Len(emitted) :
          /\ emitted[i] = ErrorCalls[i].origin
          /\ ~err[emitted[i]].absent /\ err[emitted[i]].native
          /\ \A j \in 1..Len(emitted) : emitted[j] = emitted[i] => j = i
    /\ Len(emitted) <= 2
    /\ ~(err["chain"].absent) => err["respond"].absent
    /\ pc = "done" /\ ~thrown.absent =>
          \E i \in 1..Len(emitted) : emitted[i] \in {"chain", "respond"}
    /\ \A i \in 1..Len(emitted) :
          emitted[i] = "socket" => socket = "error" /\ observer = "fired"
    /\ ~Failed => emitted = <<>>

\* The socket failed while the chain ran and the chain then rejected: two
\* events, the socket's first.
C6_Witness ==
    /\ pc = "done"
    /\ chain = "rejected"
    /\ emitted = <<"socket", "chain">>

\* C7: when the on-finished listener fires on a socket that reported an
\* error, it calls ctx.onerror with that error, which leaves the response as
\* it is; and once it has, no call of respond or ctx.onerror changes the
\* status, the headers, the body or the payload (only middleware can still
\* stage values).
C7_NothingWrittenAfterSocketError ==
    [][ /\ (observer = "armed" /\ observer' = "fired" /\ socket = "error")
            => /\ OnErrorStep("socket")
               /\ err'["socket"] = [SocketErr EXCEPT !.headerSent = TRUE]
               /\ ctx' = ctx
        /\ (~err["socket"].absent /\ calls' # calls) => ctx' = ctx
      ]_vars

\* The listener reported the socket's error first; respond ran afterwards
\* on a staged body and wrote nothing.
C7_Witness ==
    /\ pc = "done"
    /\ Len(calls) = 2
    /\ calls[1] = [fn |-> "onerror", by |-> "finished", origin |-> "socket"]
    /\ calls[2].fn = "respond"
    /\ ctx.body.kind = "string"
    /\ ~ctx.headersSent /\ ~ctx.writableEnded /\ ctx.payload = ""

\* C8: from handleRequest on the status is 404 for as long as no status
\* setter has run (the body setter runs it); a chain that resolves without
\* having set a status or a body is answered 404 by respond, with the
\* fallback body of 404.
C8_DefaultStatus404 ==
    /\ (pc # "created" /\ ~ctx.explicitStatus) => ctx.statusCode = 404
    /\ ( /\ pc = "done" /\ chain = "resolved"
         /\ ~ctx.explicitStatus /\ ctx.body = Undefined
         /\ ctx.writableEnded /\ ctx.payload # "raw" )
       => /\ ctx.statusCode = 404
          /\ ctx.payload = IF req.method = "HEAD" THEN ""
                           ELSE IF req.httpVersionMajor >= 2 THEN "404"
                           ELSE "Not Found"

\* A chain that staged nothing was answered 404 Not Found.
C8_Witness ==
    /\ pc = "done" /\ chain = "resolved"
    /\ ops = 0
    /\ ctx.statusCode = 404 /\ ctx.payload = "Not Found"
    /\ ctx.writableEnded

\* The step is respond going past its first two tests.
RespondStep ==
    /\ pc = "then" /\ pc' # "then"
    /\ ctx.respond /\ ~ctx.writableEnded /\ socket = "open"

\* C9, as claimed: for a status without a body respond clears the body and
\* ends the response without payload, and no Content-Length other than 0 is
\* left.
C9_Original ==
    [][ (RespondStep /\ ctx.statusCode \in {204, 205, 304})
          => /\ ctx'.body = Null
             /\ ctx'.writableEnded /\ ctx'.payload = ""
             /\ ctx'.header.cl \in {-1, 0}
      ]_vars

\* C9, amended: for a status without a body respond clears the body and ends
\* the response without payload; if the headers were not sent it removes
\* Content-Type, Content-Length and Transfer-Encoding, and if they were sent
\* the headers stay as sent, a Content-Length among them.
C9_NoBodyStatus ==
    [][ (RespondStep /\ ctx.statusCode \in {204, 205, 304})
          => /\ ctx'.body = Null
             /\ ctx'.writableEnded /\ ctx'.payload = ""
             /\ ctx'.statusCode = ctx.statusCode
             /\ ctx'.header =
                  IF ctx.headersSent THEN ctx.header
                  ELSE [ctx.header EXCEPT !.ct = "", !.cl = -1, !.te = ""]
      ]_vars

\* A 304 whose staged body (Content-Length 5) was flushed with the headers:
\* respond cleared the body and wrote no payload.
C9_Witness ==
    /\ pc = "done" /\ chain = "resolved"
    /\ ctx.statusCode = 304
    /\ ctx.header.cl = 5
    /\ ctx.body = Null /\ ctx.writableEnded /\ ctx.payload = ""

\* A body whose size is known without reading it.
Sized(b) == b.kind \in {"string", "buffer", "json"}

\* C10, as claimed: for HEAD and a status with a body, respond writes no
\* payload and Content-Length is the size of the staged body.
C10_Original ==
    [][ ( /\ RespondStep /\ req.method = "HEAD"
          /\ ctx.statusCode \notin {204, 205, 304}
          /\ Sized(ctx.body) )
          => /\ ctx'.writableEnded /\ ctx'.payload = ""
             /\ ctx'.header.cl = ByteLength(ctx.body.text)
      ]_vars

\* C10, amended: for HEAD and a status with a body, respond writes no payload
\* and leaves the body staged, whatever it is.  If the headers are not sent
\* and no Content-Length is staged, it sets Content-Length to the size of a
\* string, Buffer or JSON body and sets none for a stream or no body (and
\* throws, writing nothing, if the body cannot be serialized); otherwise the
\* headers stay as they are.
C10_HeadResponse ==
    [][ ( /\ RespondStep /\ req.method = "HEAD"
          /\ ctx.statusCode \notin {204, 205, 304} )
          => /\ ctx'.payload = ""
             /\ ctx'.body = ctx.body
             /\ IF ~ctx.headersSent /\ ctx.header.cl = -1
                   /\ ctx.body.kind = "circular"
                THEN ctx' = ctx /\ pc' = "catch"
                ELSE /\ ctx'.writableEnded /\ pc' = "done"
                     /\ ctx'.header =
                          IF ~ctx.headersSent /\ ctx.header.cl = -1
                             /\ Sized(ctx.body)
                          THEN [ctx.header EXCEPT
                                  !.cl = ByteLength(ctx.body.text)]
                          ELSE ctx.header
      ]_vars

\* A HEAD request with a JSON body, whose setter leaves no Content-Length:
\* respond set it to the size of the serialized body and wrote no payload.
C10_Witness ==
    /\ pc = "done" /\ chain = "resolved"
    /\ req.method = "HEAD"
    /\ ctx.body.kind = "json" /\ ctx.statusCode = 200
    /\ ctx.header.cl = 7
    /\ ctx.writableEnded /\ ctx.payload = ""

\* The step is respond at its null-body branch: a GET request, a status with
\* a body, and no body staged.
RespondNoBodyStep ==
    /\ RespondStep /\ req.method = "GET"
    /\ ctx.statusCode \notin {204, 205, 304}
    /\ ctx.body.kind \in {"undefined", "null"}

\* The reason phrase, or the numeric status string on HTTP/2 and above.
ReasonText ==
    IF req.httpVersionMajor >= 2 THEN CodeString(ctx.statusCode)
    ELSE statuses[ctx.statusCode]

\* C11, as claimed: with no body staged, respond ends an explicitly null body
\* with Content-Length 0, no Content-Type, no Transfer-Encoding and no
\* payload; otherwise it writes the reason phrase (the numeric status on
\* HTTP/2) as text/plain with Content-Length its byte length.
C11_Original ==
    [][ RespondNoBodyStep
          => /\ ctx'.writableEnded
             /\ IF ctx.explicitNullBody
                THEN /\ ctx'.payload = ""
                     /\ ctx'.header.ct = "" /\ ctx'.header.te = ""
                     /\ ctx'.header.cl = 0
                ELSE /\ ctx'.payload = ReasonText
                     /\ ctx'.header.ct = MimeType("text")
                     /\ ctx'.header.cl = ByteLength(ReasonText)
      ]_vars

\* C11, amended: the payload is as claimed in both cases; the headers are as
\* claimed if they were not sent before respond ran, and stay as sent if
\* they were.
C11_FallbackBody ==
    [][ RespondNoBodyStep
          => /\ ctx'.writableEnded /\ pc' = "done"
             /\ ctx'.statusCode = ctx.statusCode /\ ctx'.body = ctx.body
             /\ IF ctx.explicitNullBody
                THEN /\ ctx'.payload = ""
                     /\ ctx'.header =
                          IF ctx.headersSent THEN ctx.header
                          ELSE [ctx.header EXCEPT
                                  !.ct = "", !.te = "", !.cl = 0]
                ELSE /\ ctx'.payload = ReasonText
                     /\ ctx'.header =
                          IF ctx.headersSent THEN ctx.header
                          ELSE [ctx.header EXCEPT
                                  !.ct = MimeType("text"),
                                  !.cl = ByteLength(ReasonText)]
      ]_vars

\* An HTTP/2 request whose chain set status 200 and no body: respond wrote
\* "200" as text/plain with Content-Length 3.
C11_Witness ==
    /\ pc = "done" /\ chain = "resolved"
    /\ req.method = "GET" /\ req.httpVersionMajor = 2
    /\ ctx.statusCode = 200 /\ ctx.body = Undefined
    /\ ctx.payload = "200" /\ ctx.header.cl = 3
    /\ ctx.header.ct = MimeType("text")

\* C12: when ctx.respond is false or the transport is not writable at the
\* time the chain completes, respond changes nothing of the response and
\* writes nothing, whatever was staged.
C12_BypassLeavesResponse ==
    [][ ( /\ pc = "then" /\ pc' # "then"
          /\ (ctx.respond = FALSE \/ ctx.writableEnded \/ socket # "open") )
          => ctx' = ctx /\ pc' = "done"
      ]_vars

\* A chain that staged a body and took over the response with
\* ctx.respond = false: respond was reached and nothing was written.
C12_Witness ==
    /\ pc = "done" /\ chain = "resolved"
    /\ ctx.respond = FALSE
    /\ ctx.body.kind = "string"
    /\ ~ctx.writableEnded /\ ~ctx.headersSent /\ ctx.payload = ""

\* The parts of the trace: a handler beginning to run, the code behind its
\* next() calls, the next() calls dispatched and their settling.
IsEntry(e) == e.ev \in {"before", "only"}

Entries == SelectSeq(trace, IsEntry)

Afters == SelectSeq(trace, LAMBDA e : e.ev = "after")

Downs == SelectSeq(trace, LAMBDA e : e.ev = "down")

Ups == SelectSeq(trace, LAMBDA e : e.ev = "up")

Logged == SelectSeq(trace, LAMBDA e : e.ev \in {"before", "only", "after"})

Descending(q) == \A m, n \in 1..Len(q) : m < n => q[m].id > q[n].id

\* C13: the handlers begin to run in the order they were registered, each
\* one only right after the one before it called next; the code behind the
\* next() calls runs in the reverse order, once nothing deeper runs any
\* more; a chain that resolved had as many next() calls dispatched as
\* settled; and of [A, B] with B not calling next exactly A's code before
\* next, B's code and A's code after next ran, in that order.
C13_OnionOrder ==
    /\ \A k \in 1..Len(Entries) : Entries[k].id = k
    /\ \A n \in 2..Len(trace) :
          IsEntry(trace[n])
             => trace[n - 1] = [id |-> trace[n].id - 1, ev |-> "down"]
    /\ Descending(Afters) /\ Descending(Ups)
    /\ \A m, n \in 1..Len(trace) :
          (m < n /\ trace[m].ev = "after") => ~IsEntry(trace[n])
    /\ outcome = "resolved" => Len(Downs) = Len(Ups)
    /\ ( /\ outcome = "resolved"
         /\ Len(middleware) >= 2 /\ middleware[1].kind = "pass"
         /\ [id |-> 2, ev |-> "only"] \in {trace[n] : n \in 1..Len(trace)} )
         => Logged = << [id |-> 1, ev |-> "before"], [id |-> 2, ev |-> "only"],
                        [id |-> 1, ev |-> "after"] >>

\* The chain [A, B], B not calling next, resolved after A-before, B-only,
\* A-after, and the outcome went to handleResponse.
C13_Witness ==
    /\ outcome = "resolved" /\ handled = "respond"
    /\ Len(middleware) = 2 /\ middleware[2].kind = "stop"
    /\ Logged = << [id |-> 1, ev |-> "before"], [id |-> 2, ev |-> "only"],
                   [id |-> 1, ev |-> "after"] >>
    /\ Len(Downs) = 1 /\ Len(Ups) = 1

\* The handlers whose next() call was refused as a second one.
Refusals == {trace[n].id : n \in {k \in 1..Len(trace) : trace[k].ev = "refused"}}

Completed == outcome \in {"resolved", "rejected"}

\* No handler runs twice in one request.
RunOnce ==
    \A m, n \in 1..Len(Entries) : m # n => Entries[m].id # Entries[n].id

\* One outcome reaches handleRequest, and one of its callbacks takes it.
OneOutcome ==
    /\ handled # "none" => Completed /\ stack = <<>>
    /\ handled = "respond" => outcome = "resolved"
    /\ handled = "onerror" => outcome = "rejected"

\* C14, as claimed: once a handler has called next a second time, the chain
\* fails and the failure goes to ctx.onerror; no handler runs twice and one
\* outcome reaches handleRequest.
C14_Original ==
    /\ (Refusals # {} /\ Completed) => outcome = "rejected"
    /\ (Refusals # {} /\ handled # "none") => handled = "onerror"
    /\ RunOnce
    /\ OneOutcome

\* C14, amended: the second next() call rejects with 'next() called multiple
\* times' in the handler that made it, and no handler runs twice; if neither
\* that handler nor one registered before it catches what next() rejects
\* with, the chain rejects with that failure and it goes to ctx.onerror; one
\* outcome reaches handleRequest, taken by one callback once.
C14_SecondNextRefused ==
    /\ [](/\ \A k \in 1..Len(stack) :
                stack[k].waiting = "refused"
                   => k = Len(stack) /\ ret = "multiple"
          /\ RunOnce
          /\ \A i \in Refusals :
                ( /\ Completed
                  /\ \A k \in 1..i : ~Catches(middleware[k].kind) )
                   => /\ outcome = "rejected" /\ ret = "multiple"
                      /\ handled \in {"none", "onerror"}
          /\ OneOutcome)
    /\ [][ handled # "none"
             => handled' = handled \/ requests' = requests + 1 ]_vars

\* The only handler awaited next() twice: the chain rejected with the
\* composer's failure, which went to ctx.onerror.
C14_Witness ==
    /\ Len(middleware) = 1 /\ middleware[1].kind = "twice"
    /\ Refusals = {1}
    /\ Entries = << [id |-> 1, ev |-> "before"] >>
    /\ outcome = "rejected" /\ ret = "multiple" /\ handled = "onerror"

\* use() appends the handler at the end of the list.
UseAppends ==
    [][ middleware' # middleware
          => \E k \in Kinds :
                middleware' = Append(middleware, [id |-> Len(middleware) + 1,
                                                  kind |-> k]) ]_vars

FirstIpRead == IP = Empty /\ seen'.what = "ip" /\ seen' # seen

\* The host the request names itself: :authority on HTTP/2 when it has one,
\* else Host; the part before the first comma, or "" without either.
DirectHost ==
    LET named == IF conn.httpVersionMajor >= 2
                    /\ reqHeaders[":authority"] # Empty
                 THEN reqHeaders[":authority"] ELSE reqHeaders["host"]
    IN  IF named = Empty THEN Empty ELSE split(named)[1]

\* C16: without proxy trust, host is the request's own host, protocol
\* follows the socket's encrypted flag alone, ips is empty and the first read
\* of ip is the socket's address, whatever the forwarded headers hold.
C16_UntrustedForwardedHeaders ==
    /\ [](~app.proxy
            => /\ seen.what = "host" => seen.value = DirectHost
               /\ seen.what = "protocol"
                    => seen.value = IF conn.encrypted THEN <<"https">>
                                    ELSE <<"http">>
               /\ seen.what = "ips" => seen.value = <<>>)
    /\ [][ (~app.proxy /\ FirstIpRead)
             => seen'.value = conn.remoteAddress ]_vars

\* Without proxy trust and with every forwarded header set, ip was read as
\* the socket's address.
C16_Witness ==
    /\ ~app.proxy
    /\ reqHeaders["x-forwarded-host"] # Empty
    /\ reqHeaders["x-forwarded-proto"] # Empty
    /\ reqHeaders["x-forwarded-for"] = <<"a", ",", "b">>
    /\ seen = [what |-> "ip", value |-> <<"r">>]

\* The comma-split forwarded-for header, cut to its last maxIpsCount entries
\* when that is set.
TrustedIps ==
    LET full == split(reqHeaders[app.proxyIpHeader])
        n == IF app.maxIpsCount > 0 /\ app.maxIpsCount < Len(full)
             THEN app.maxIpsCount ELSE Len(full)
    IN  [k \in 1..n |-> full[Len(full) - n + k]]

Forwarded == app.proxy /\ reqHeaders[app.proxyIpHeader] # Empty

\* C17, as claimed: with proxy trust and a forwarded-for header, ips is the
\* comma-split header cut to its last maxIpsCount entries, and the first
\* read of ip is its first entry, the socket's address only when the list is
\* empty.
C17_Original ==
    /\ []((Forwarded /\ seen.what = "ips") => seen.value = TrustedIps)
    /\ [][ (Forwarded /\ FirstIpRead)
             => seen'.value = IF TrustedIps = <<>> THEN conn.remoteAddress
                              ELSE TrustedIps[1] ]_vars

\* C17, amended: ips is as claimed, and never empty; the first read of ip is
\* its first entry unless that entry is the empty string, and then the
\* socket's address ('' without one).
C17_ForwardedIps ==
    /\ []((Forwarded /\ seen.what = "ips")
            => seen.value = TrustedIps /\ seen.value # <<>>)
    /\ [][ (Forwarded /\ FirstIpRead)
             => seen'.value = IF TrustedIps[1] # Empty THEN TrustedIps[1]
                              ELSE conn.remoteAddress ]_vars

\* With proxy trust, 'a , b' forwarded and maxIpsCount 1, ip was read as
\* 'b' on a socket whose address is 'r'.
C17_Witness ==
    /\ app.proxy /\ app.maxIpsCount = 1
    /\ reqHeaders["x-forwarded-for"] = <<"a", ",", "b">>
    /\ conn.remoteAddress = <<"r">>
    /\ seen = [what |-> "ip", value |-> <<"b">>]

\* Two objects with the same properties, in whatever order.
Equivalent(o1, o2) ==
    /\ Len(o1) = Len(o2)
    /\ {o1[n] : n \in 1..Len(o1)} = {o2[n] : n \in 1..Len(o2)}

\* C18: once an object of string keys and string values is assigned to
\* request.query, request.querystring reads as a string whose parse is an
\* object equivalent to it, and request.query reads as such an object.
C18_QueryRoundTrip ==
    assigned = "query"
       => /\ got.what = "querystring" => Equivalent(qsParse(got.value), given)
          /\ got.what = "query" => Equivalent(got.value, given)

\* { '&=': '%26+', a: '' } was assigned on /p?a=b: the URL holds it escaped
\* and request.query read as the same two properties.
C18_Witness ==
    /\ given = << [k |-> <<"&", "=">>, v |-> <<"%", "2", "6", "+">>],
                  [k |-> <<"a">>, v |-> Empty] >>
    /\ url = <<"/", "p", "?", "%", "2", "6", "%", "3", "D", "=",
               "%", "2", "5", "2", "6", "%", "2", "B", "&", "a", "=">>
    /\ got = [what |-> "query", value |-> given]

\* The objects of request t: its Context, facades and state.
Own(t) ==
    LET c == tasks[t].ctx
    IN  {c, heap[c].request, heap[c].response, heap[c].state}

StateOf(t) == heap[tasks[t].ctx].state

\* The Context c is wired to its facades as createContext says.
Wired(c) ==
    LET R == heap[c].request
        S == heap[c].response
    IN  /\ heap[c].kind = "context"
        /\ heap[R].kind = "request" /\ heap[S].kind = "response"
        /\ heap[heap[c].state].kind = "state"
        /\ heap[R].ctx = c /\ heap[S].ctx = c
        /\ heap[R].response = S /\ heap[S].request = R

\* C19: every call of the request handler makes a Context of its own, with a
\* Request, a Response and an empty state of its own, wired to each other;
\* requests handled at the same time share none of them, and what one
\* writes to its ctx.state never shows in another's.
C19_FreshContextPerRequest ==
    /\ [](\A t \in 1..Len(tasks) :
             /\ Wired(tasks[t].ctx)
             /\ Cardinality(Own(t)) = 4
             /\ \A u \in 1..Len(tasks) : u # t => Own(t) \cap Own(u) = {})
    /\ [][ Len(tasks') > Len(tasks)
             => /\ heap'[heap'[tasks'[Len(tasks')].ctx].state].props = ""
                /\ SubSeq(heap', 1, Len(heap)) = heap ]_vars
    /\ [][ \A u \in 1..Len(tasks) :
              u # running => heap'[StateOf(u)].props = heap[StateOf(u)].props
         ]_vars

\* Two requests in flight, the first resumed after the second arrived: each
\* ctx.state holds what its own request wrote.
C19_Witness ==
    /\ Len(tasks) = 2 /\ tasks[1].resumed
    /\ tasks[1].at # "done" /\ tasks[2].at # "done"
    /\ heap[StateOf(1)].props = "ann" /\ heap[StateOf(2)].props = "bob"

\* C20: with the ambient storage enabled, app.currentContext read in a
\* request's code, before or after any suspension, is that request's own
\* Context; outside any request, and with the option disabled, it is
\* undefined.
C20_CurrentContext ==
    /\ read.by # 0
         => read.value = IF als THEN tasks[read.by].ctx ELSE 0
    /\ read.by = 0 => read.value = 0

\* With the storage enabled, the first request read app.currentContext
\* after it was resumed while a second request was suspended: it read its own
\* Context.
C20_Witness ==
    /\ als /\ Len(tasks) = 2
    /\ tasks[1].resumed /\ tasks[2].at = "suspended"
    /\ read = [by |-> 1, value |-> tasks[1].ctx]

\* The href of the Request as it was made: the raw URL if it is absolute, and
\* else the raw URL behind the origin.
HrefOf(raw) ==
    IF absolute(raw) THEN raw
    ELSE origin(protocol(app, reqHeaders, conn), host(app, reqHeaders, conn))
           \o raw

\* An assignment to url, path, querystring, search or query.
AssignStep == assigns' = assigns + 1

\* C21: the originalUrl of the Context and of the Request are the raw URL the
\* request came with, no assignment to url, path, querystring, search or query
\* changes them, and href reads as the href of that raw URL whatever was
\* assigned.
C21_OriginalUrlKept ==
    /\ (assigns = 0 => originalUrl = [context |-> url, request |-> url])
    /\ [][AssignStep => originalUrl' = originalUrl]_vars
    /\ [](got.what = "href"
            => /\ originalUrl.context = originalUrl.request
               /\ got.value = HrefOf(originalUrl.context))

\* /p?a=b came, '/q?#' was assigned to path, and href still reads
\* http:///p?a=b.
C21_Witness ==
    /\ assigned = "path"
    /\ url = <<"/", "q", "%", "3", "F", "%", "2", "3", "?", "a", "=", "b">>
    /\ originalUrl.request = <<"/", "p", "?", "a", "=", "b">>
    /\ got = [what |-> "href",
              value |-> <<"http", "://", "/", "p", "?", "a", "=", "b">>]

\* An assignment to path.
SetPathStep == AssignStep /\ assigned' = "path"

\* C22: request.query reads as the parse of the query string req.url has
\* then, whatever was assigned and whatever was read before; and an
\* assignment to path leaves the search and the query string of req.url, and
\* its scheme and host, as they were.
C22_QueryOfCurrentUrl ==
    /\ [](got.what = "query" => got.value = qsParse(querystring(url)))
    /\ [][SetPathStep => /\ parse(url').search = parse(url).search
                         /\ parse(url').query = parse(url).query
                         /\ parse(url').hasSearch = parse(url).hasSearch
                         /\ parse(url').origin = parse(url).origin]_vars

\* ctx.onerror is called for origin o with the headers not sent and the
\* response writable.
RecoveryStep(o) ==
    /\ OnErrorStep(o)
    /\ ~(ctx.headersSent \/ ctx.writableEnded \/ socket # "open")

\* The status written is one without a body and a body was staged: the
\* status setter clears the body and removes its headers.
BodyCleared(o) ==
    /\ err'[o].status \in {204, 205, 304}
    /\ ctx.body.kind \notin {"undefined", "null"}

RespondThrew == chain = "resolved" /\ ~thrown.absent

\* C24: what respond throws after the chain resolved goes to .catch, which
\* calls ctx.onerror with it, once, as for a rejection of the chain: one
\* 'error' event is emitted for it; if the headers were sent or the response
\* was not writable then, ctx.onerror leaves the response as it is and marks
\* the error headerSent, and else it ends the response as a 500.
C24_RespondFailureRecovered ==
    /\ [](RespondThrew
            => /\ pc \in {"catch", "done"}
               /\ pc = "catch" => err["respond"].absent
               /\ pc = "done"
                    => /\ ChainCalls =
                            << [fn |-> "respond", by |-> "then", origin |-> ""],
                               [fn |-> "onerror", by |-> "catch",
                                origin |-> "respond"] >>
                       /\ Len(SelectSeq(emitted, LAMBDA o : o = "respond")) = 1
                       /\ err["respond"] =
                            [thrown EXCEPT
                               !.headerSent = err["respond"].headerSent,
                               !.status = err["respond"].status])
    /\ [][OnErrorStep("respond")
           => /\ RespondThrew
              /\ IF ctx.headersSent \/ ctx.writableEnded \/ socket # "open"
                 THEN /\ ctx' = ctx
                      /\ err'["respond"].headerSent
                 ELSE /\ ctx'.writableEnded
                      /\ ctx'.statusCode = 500
                      /\ ctx'.payload = "Internal Server Error"
                      /\ ~err'["respond"].headerSent]_vars

\* Middleware staged a circular object and flushed the headers; respond
\* threw on it, and ctx.onerror emitted the error and wrote nothing.
C24_Witness ==
    /\ RespondThrew
    /\ pc = "done"
    /\ ctx.body.kind = "circular"
    /\ ctx.headersSent /\ ~ctx.writableEnded /\ ctx.payload = ""
    /\ err["respond"].headerSent
    /\ emitted = <<"respond">>

====
